---- MODULE Spec2Model ----
(***************************************************************************)
(* Register model of the LIS331 accelerometer driver (adafruit_lis331.py). *)
(* The state is the device's two control registers and identification      *)
(* byte, the driver instance's attributes, and a record of the most recent *)
(* call on the instance: its argument, its outcome, its return value and   *)
(* the bus transactions and delays it performed, in order.                 *)
(***************************************************************************)
EXTENDS Integers, Sequences, FiniteSets, TLC

VARIABLES
    variant,    \* the class being instantiated
    pc,         \* "new" before construction, then "live" or "failed"
    whoami,     \* what the WHO_AM_I register reads
    ctrl1,      \* device register CTRL1 (one byte)
    ctrl4,      \* device register CTRL4 (one byte)
    self,       \* the instance's attributes (absent until assigned)
    last        \* the most recent call and what it did

vars == <<variant, pc, whoami, ctrl1, ctrl4, self, last>>

(***************************************************************************)
(* Bounds of the model.                                                    *)
(***************************************************************************)
\* Rate codes handed to the data_rate setter range over -1 .. RateArgMax,
\* range and cutoff codes handed to their setters over -1 .. CodeArgMax.
RateArgMax == 25
CodeArgMax == 4

RateArgs == (0 - 1) .. RateArgMax
CodeArgs == (0 - 1) .. CodeArgMax

\* Register contents <<CTRL1, CTRL4>> found on the device before the driver
\* is constructed: the power-on values, and a device left configured.
InitialRegs == {<<7, 0>>, <<165, 207>>}
\* Bytes the identification register may read.
ChipIdReads == {50, 51, 0, 255}
\* Raw signed 16-bit samples the output registers may hold.
RawSamples == {0 - 16, 15}
\* Samples for the conversion on its own: every value within SampleSpan of
\* zero, and the ends of the 16-bit range.
SampleSpan == 17
WideSamples == ((0 - SampleSpan) .. SampleSpan) \cup {0 - 32768, 0 - 32767, 32766, 32767}

(***************************************************************************)
(* Module constants.                                                       *)
(***************************************************************************)
LIS331_CHIP_ID == 50
LIS331_REG_WHOAMI == 15
LIS331_REG_CTRL1 == 32
LIS331_REG_CTRL4 == 35
LIS331_REG_OUT_X_L == 40

(***************************************************************************)
(* Python's integer operators on non-negative operands.                    *)
(***************************************************************************)
RECURSIVE BitAnd(_, _)
BitAnd(a, b) ==
    IF a = 0 \/ b = 0 THEN 0
    ELSE (a % 2) * (b % 2) + 2 * BitAnd(a \div 2, b \div 2)

RECURSIVE BitOr(_, _)
BitOr(a, b) ==
    IF a = 0 THEN b
    ELSE IF b = 0 THEN a
    ELSE (IF a % 2 = 1 \/ b % 2 = 1 THEN 1 ELSE 0) + 2 * BitOr(a \div 2, b \div 2)

Pow2(n) == 2 ^ n

ShiftLeft(a, n) == a * Pow2(n)

\* Fault: a shift that rounds toward zero.
ShiftRight_toward_zero(a, n) ==
    IF a >= 0 THEN a \div Pow2(n)
    ELSE 0 - ((0 - a) \div Pow2(n))

\* >> on a Python int is an arithmetic shift: floor division, also when a < 0.
ShiftRight(a, n) ==
    IF a >= 0 THEN a \div Pow2(n)
    ELSE 0 - (((0 - a) + Pow2(n) - 1) \div Pow2(n))

(***************************************************************************)
(* CV: the value tables.  add_values fills string and lsb keyed by value,  *)
(* a later tuple with the same value replacing an earlier one.             *)
(* lsb is kept in units of _G_TO_ACCEL / 4096 m/s^2 (None is 0).           *)
(***************************************************************************)
CVTuple(name, value, string, lsb) ==
    [name |-> name, value |-> value, string |-> string, lsb |-> lsb]

LIS331HHRange == <<
    CVTuple("RANGE_6G", 0, "6", 6 * 2),
    CVTuple("RANGE_12G", 1, "12", 12 * 2),
    CVTuple("RANGE_24G", 3, "24", 24 * 2) >>

H3LIS331Range == <<
    CVTuple("RANGE_100G", 0, "100", 100 * 2),
    CVTuple("RANGE_200G", 1, "200", 200 * 2),
    CVTuple("RANGE_400G", 3, "400", 400 * 2) >>

Rate == <<
    CVTuple("SHUTDOWN", 0, "0", 0),
    CVTuple("RATE_50_HZ", 4, "50", 0),
    CVTuple("RATE_100_HZ", 5, "100", 0),
    CVTuple("RATE_400_HZ", 6, "400", 0),
    CVTuple("RATE_1000_HZ", 7, "1000", 0),
    CVTuple("RATE_LOWPOWER_0_5_HZ", 8, "0.5", 0),
    CVTuple("RATE_LOWPOWER_1_HZ", 12, "1", 0),
    CVTuple("RATE_LOWPOWER_2_HZ", 16, "2", 0),
    CVTuple("RATE_LOWPOWER_5_HZ", 20, "5", 0),
    CVTuple("RATE_LOWPOWER_10_HZ", 24, "10", 0) >>

Mode == <<
    CVTuple("SHUTDOWN", 0, "Shutdown", 0),
    CVTuple("NORMAL", 1, "Normal", 0),
    CVTuple("LOW_POWER", 2, "Low Power", 0) >>

Frequency == <<
    CVTuple("FREQ_37_HZ", 0, "37", 0),
    CVTuple("FREQ_74_HZ", 0, "74", 0),
    CVTuple("FREQ_292_HZ", 0, "292", 0),
    CVTuple("FREQ_780_HZ", 0, "37", 0) >>

\* The keys of cls.string after add_values.
CVKeys(cls) == {cls[i].value : i \in 1..Len(cls)}

\* cls.<name>, as setattr left it: the value of the last tuple of that name.
CVAttr(cls, name) ==
    LET idx == {i \in 1..Len(cls) : cls[i].name = name}
        i == CHOOSE j \in idx : \A k \in idx : k <= j
    IN cls[i].value

\* cls.lsb[value]: the lsb of the last tuple with that value.
CVLsb(cls, value) ==
    LET idx == {i \in 1..Len(cls) : cls[i].value = value}
        i == CHOOSE j \in idx : \A k \in idx : k <= j
    IN cls[i].lsb

is_valid(cls, value) == value \in CVKeys(cls)

\* The class a range-class name denotes.
RangeClass(name) == IF name = "LIS331HHRange" THEN LIS331HHRange ELSE H3LIS331Range

(***************************************************************************)
(* A call in progress: the device, the instance, and what the call has     *)
(* done so far.  res is "ok" until an exception is raised.                 *)
(***************************************************************************)
Ev(kind, reg, attr, val) == [kind |-> kind, reg |-> reg, attr |-> attr, val |-> val]

Enter(w, c1, c4, obj) ==
    [whoami |-> w, ctrl1 |-> c1, ctrl4 |-> c4, self |-> obj,
     log |-> <<>>, res |-> "ok", ret |-> <<>>]

Raise(c, exc) == [c EXCEPT !.res = exc, !.ret = <<>>]

Return(c, value) == [c EXCEPT !.ret = value]

\* self.<name> = value
SetAttr(c, name, value) ==
    [c EXCEPT !.self = [k \in (DOMAIN c.self) \cup {name} |->
                            IF k = name THEN value ELSE c.self[k]],
              !.log = Append(c.log, Ev("setattr", 0, name, <<value>>))]

\* sleep(seconds), in milliseconds
sleep(c, ms) == [c EXCEPT !.log = Append(c.log, Ev("sleep", 0, "", <<ms>>))]

(***************************************************************************)
(* The register descriptors.  A read is one write_then_readinto; a write   *)
(* reads the register, replaces the field and writes the byte back.        *)
(***************************************************************************)
RegByte(c, reg) ==
    IF reg = LIS331_REG_WHOAMI THEN c.whoami
    ELSE IF reg = LIS331_REG_CTRL1 THEN c.ctrl1
    ELSE c.ctrl4

BusRead(c, reg) ==
    [c EXCEPT !.log = Append(c.log, Ev("read", reg, "", <<RegByte(c, reg)>>))]

BusWrite(c, reg, byte) ==
    [c EXCEPT !.ctrl1 = IF reg = LIS331_REG_CTRL1 THEN byte ELSE c.ctrl1,
              !.ctrl4 = IF reg = LIS331_REG_CTRL4 THEN byte ELSE c.ctrl4,
              !.log = Append(c.log, Ev("write", reg, "", <<byte>>))]

RWBits(num_bits, register_address, lowest_bit) ==
    [num_bits |-> num_bits, reg |-> register_address, lowest_bit |-> lowest_bit]

bit_mask(f) == ShiftLeft(Pow2(f.num_bits) - 1, f.lowest_bit)

\* The field's value within a register byte.
FieldOf(byte, f) == ShiftRight(BitAnd(byte, bit_mask(f)), f.lowest_bit)

RWBits_get(c, f) ==
    Return(BusRead(c, f.reg), <<FieldOf(RegByte(c, f.reg), f)>>)

RWBits_set(c, f, value) ==
    LET reg == RegByte(c, f.reg)
        cleared == reg - BitAnd(reg, bit_mask(f))
        merged == BitOr(cleared, ShiftLeft(value, f.lowest_bit))
    IN BusWrite(BusRead(c, f.reg), f.reg, BitAnd(merged, 255))

ROUnaryStruct_get(c, reg) == Return(BusRead(c, reg), <<RegByte(c, reg)>>)

\* Fault: the combined field declared one bit too narrow.
mode_and_odr_bits_4bit == RWBits(4, LIS331_REG_CTRL1, 3)

mode_and_odr_bits == RWBits(5, LIS331_REG_CTRL1, 3)
power_mode_bits == RWBits(3, LIS331_REG_CTRL1, 5)
data_rate_lpf_bits == RWBits(2, LIS331_REG_CTRL1, 3)
range_bits == RWBits(2, LIS331_REG_CTRL4, 4)

(***************************************************************************)
(* LIS331: mode, data_rate, lpf_cutoff, range, acceleration.               *)
(***************************************************************************)
\* data_rate is <<>> for None, <<v>> otherwise; the result is (pm, dr).
\* pm_value is not clamped: it is the three bits as masked.  "is" on these
\* small integers is equality; only dr depends on it, and no caller uses dr.
mode_and_rate(obj, data_rate) ==
    LET rate == IF data_rate = <<>> THEN obj.cached_data_rate ELSE data_rate[1]
        pm_value == ShiftRight(BitAnd(rate, 28), 2)
        dr_value == BitAnd(rate, 3)
    IN <<pm_value, IF pm_value = CVAttr(Mode, "LOW_POWER") THEN 0 ELSE dr_value>>

mode(obj) == mode_and_rate(obj, <<>>)[1]

mode_get(c) == Return(c, <<mode(c.self)>>)

\* Fault: the getter without its mode guard.
lpf_cutoff_get_unguarded(c) == RWBits_get(c, data_rate_lpf_bits)

lpf_cutoff_get(c) ==
    IF mode(c.self) = CVAttr(Mode, "NORMAL")
    THEN Raise(c, "RuntimeError")
    ELSE RWBits_get(c, data_rate_lpf_bits)

\* Fault: the setter without its mode guard.
lpf_cutoff_set_unguarded(c, cutoff_freq) ==
    IF ~is_valid(Frequency, cutoff_freq)
    THEN Raise(c, "AttributeError")
    ELSE RWBits_set(c, data_rate_lpf_bits, cutoff_freq)

\* Fault: the mode is checked before the argument.
lpf_cutoff_set_mode_first(c, cutoff_freq) ==
    IF mode(c.self) = CVAttr(Mode, "NORMAL")
    THEN Raise(c, "RuntimeError")
    ELSE IF ~is_valid(Frequency, cutoff_freq)
    THEN Raise(c, "AttributeError")
    ELSE RWBits_set(c, data_rate_lpf_bits, cutoff_freq)

\* Fault: the cutoff is written through the power-mode descriptor.
lpf_cutoff_set_wrong_field(c, cutoff_freq) ==
    IF ~is_valid(Frequency, cutoff_freq)
    THEN Raise(c, "AttributeError")
    ELSE IF mode(c.self) = CVAttr(Mode, "NORMAL")
    THEN Raise(c, "RuntimeError")
    ELSE RWBits_set(c, power_mode_bits, cutoff_freq)

lpf_cutoff_set(c, cutoff_freq) ==
    IF ~is_valid(Frequency, cutoff_freq)
    THEN Raise(c, "AttributeError")
    ELSE IF mode(c.self) = CVAttr(Mode, "NORMAL")
    THEN Raise(c, "RuntimeError")
    ELSE RWBits_set(c, data_rate_lpf_bits, cutoff_freq)

data_rate_get(c) == Return(c, <<c.self.cached_data_rate>>)

\* Fault: the cache keeps the mode bits alone.
data_rate_set_caches_mode(c, new_rate_bits) ==
    IF ~is_valid(Rate, new_rate_bits)
    THEN Raise(c, "AttributeError")
    ELSE LET new_mode == mode_and_rate(c.self, <<new_rate_bits>>)[1]
             written == IF new_mode = CVAttr(Mode, "NORMAL")
                        THEN RWBits_set(c, mode_and_odr_bits, new_rate_bits)
                        ELSE RWBits_set(c, power_mode_bits, new_mode)
         IN SetAttr(written, "cached_data_rate", ShiftLeft(new_mode, 2))

\* Fault: the combined field is written whatever the mode.
data_rate_set_whole_field(c, new_rate_bits) ==
    IF ~is_valid(Rate, new_rate_bits)
    THEN Raise(c, "AttributeError")
    ELSE LET new_mode == mode_and_rate(c.self, <<new_rate_bits>>)[1]
         IN SetAttr(RWBits_set(c, mode_and_odr_bits, new_rate_bits),
                    "cached_data_rate",
                    BitOr(ShiftLeft(new_mode, 2), new_rate_bits))

data_rate_set(c, new_rate_bits) ==
    IF ~is_valid(Rate, new_rate_bits)
    THEN Raise(c, "AttributeError")
    ELSE LET new_mode == mode_and_rate(c.self, <<new_rate_bits>>)[1]
             written == IF new_mode = CVAttr(Mode, "NORMAL")
                        THEN RWBits_set(c, mode_and_odr_bits, new_rate_bits)
                        ELSE RWBits_set(c, power_mode_bits, new_mode)
         IN SetAttr(written, "cached_data_rate",
                    BitOr(ShiftLeft(new_mode, 2), new_rate_bits))

range_get(c) == RWBits_get(c, range_bits)

\* Fault: the setter without its validation.
range_set_unchecked(c, new_range) ==
    sleep(SetAttr(RWBits_set(c, range_bits, new_range),
                  "cached_accel_range", new_range), 10)

\* Fault: the cache is updated but the register is not written.
range_set_cache_only(c, new_range) ==
    IF ~is_valid(RangeClass(c.self.range_class), new_range)
    THEN Raise(c, "AttributeError")
    ELSE sleep(SetAttr(c, "cached_accel_range", new_range), 10)

\* Fault: the delay is taken before the register write.
range_set_sleep_first(c, new_range) ==
    IF ~is_valid(RangeClass(c.self.range_class), new_range)
    THEN Raise(c, "AttributeError")
    ELSE SetAttr(RWBits_set(sleep(c, 10), range_bits, new_range),
                 "cached_accel_range", new_range)

range_set(c, new_range) ==
    IF ~is_valid(RangeClass(c.self.range_class), new_range)
    THEN Raise(c, "AttributeError")
    ELSE sleep(SetAttr(RWBits_set(c, range_bits, new_range),
                       "cached_accel_range", new_range), 10)

\* In units of _G_TO_ACCEL / 4096 m/s^2.
scale_acceleration(obj, value) ==
    LET right_justified == ShiftRight(value, 4)
        lsb_value == CVLsb(RangeClass(obj.range_class), obj.cached_accel_range)
    IN right_justified * lsb_value

\* raw is the burst read's three samples.
acceleration(c, raw) ==
    LET read == [c EXCEPT !.log = Append(c.log,
                     Ev("read", BitOr(LIS331_REG_OUT_X_L, 128), "", raw))]
    IN Return(read, << scale_acceleration(c.self, raw[1]),
                       scale_acceleration(c.self, raw[2]),
                       scale_acceleration(c.self, raw[3]) >>)

(***************************************************************************)
(* Construction.                                                           *)
(***************************************************************************)
\* Fault: the identification byte is read but not compared.
LIS331_init_unchecked(c, cls) ==
    IF cls \notin {"LIS331HH", "H3LIS331"}
    THEN Raise(c, "RuntimeError")
    ELSE LET opened == SetAttr(c, "i2c_device", "I2CDevice")
             id == ROUnaryStruct_get(opened, LIS331_REG_WHOAMI)
         IN SetAttr(Return(id, <<>>), "range_class", "None")

LIS331_init(c, cls) ==
    IF cls \notin {"LIS331HH", "H3LIS331"}
    THEN Raise(c, "RuntimeError")
    ELSE LET opened == SetAttr(c, "i2c_device", "I2CDevice")
             id == ROUnaryStruct_get(opened, LIS331_REG_WHOAMI)
         IN IF id.ret[1] # LIS331_CHIP_ID
            THEN Raise(id, "RuntimeError")
            ELSE SetAttr(Return(id, <<>>), "range_class", "None")

\* Runs the rest of a constructor unless the base constructor raised.
SubclassInit(c, cls, range_class, default_range) ==
    LET base == LIS331_init(c, cls)
    IN IF base.res # "ok" THEN base
       ELSE range_set(
                data_rate_set(SetAttr(base, "range_class", range_class),
                              CVAttr(Rate, "RATE_1000_HZ")),
                default_range)

LIS331HH_init(c) ==
    SubclassInit(c, "LIS331HH", "LIS331HHRange", CVAttr(LIS331HHRange, "RANGE_24G"))

\* Fault: the narrowest range as the default.
H3LIS331_init_narrow(c) ==
    SubclassInit(c, "H3LIS331", "H3LIS331Range", CVAttr(H3LIS331Range, "RANGE_100G"))

H3LIS331_init(c) ==
    SubclassInit(c, "H3LIS331", "H3LIS331Range", CVAttr(H3LIS331Range, "RANGE_400G"))

(***************************************************************************)
(* The state machine: one action per call on the instance.                 *)
(***************************************************************************)
NoAttrs == [k \in {} |-> 0]

NoCall == [op |-> "none", arg |-> <<>>, res |-> "ok", ret |-> <<>>, log |-> <<>>]

Init ==
    /\ variant \in {"LIS331HH", "H3LIS331", "LIS331"}
    /\ pc = "new"
    /\ whoami \in ChipIdReads
    /\ \E regs \in InitialRegs : ctrl1 = regs[1] /\ ctrl4 = regs[2]
    /\ self = NoAttrs
    /\ last = NoCall

Now == Enter(whoami, ctrl1, ctrl4, self)

Finish(op, arg, r) ==
    /\ ctrl1' = r.ctrl1
    /\ ctrl4' = r.ctrl4
    /\ self' = r.self
    /\ last' = [op |-> op, arg |-> arg, res |-> r.res, ret |-> r.ret, log |-> r.log]
    /\ UNCHANGED <<variant, whoami>>

Construct ==
    /\ pc = "new"
    /\ LET r == IF variant = "LIS331HH" THEN LIS331HH_init(Now)
                ELSE IF variant = "H3LIS331" THEN H3LIS331_init(Now)
                ELSE LIS331_init(Now, variant)
       IN /\ pc' = IF r.res = "ok" THEN "live" ELSE "failed"
          /\ Finish("init", <<>>, r)

SetDataRate ==
    /\ pc = "live"
    /\ \E v \in RateArgs : Finish("set_data_rate", <<v>>, data_rate_set(Now, v))
    /\ UNCHANGED pc

GetDataRate ==
    /\ pc = "live"
    /\ Finish("get_data_rate", <<>>, data_rate_get(Now))
    /\ UNCHANGED pc

GetMode ==
    /\ pc = "live"
    /\ Finish("get_mode", <<>>, mode_get(Now))
    /\ UNCHANGED pc

SetLpfCutoff ==
    /\ pc = "live"
    /\ \E v \in CodeArgs : Finish("set_lpf_cutoff", <<v>>, lpf_cutoff_set(Now, v))
    /\ UNCHANGED pc

GetLpfCutoff ==
    /\ pc = "live"
    /\ Finish("get_lpf_cutoff", <<>>, lpf_cutoff_get(Now))
    /\ UNCHANGED pc

SetRange ==
    /\ pc = "live"
    /\ \E v \in CodeArgs : Finish("set_range", <<v>>, range_set(Now, v))
    /\ UNCHANGED pc

GetRange ==
    /\ pc = "live"
    /\ Finish("get_range", <<>>, range_get(Now))
    /\ UNCHANGED pc

ReadAcceleration ==
    /\ pc = "live"
    /\ \E x \in RawSamples, y \in RawSamples, z \in RawSamples :
           Finish("read_acceleration", <<>>, acceleration(Now, <<x, y, z>>))
    /\ UNCHANGED pc

Next ==
    \/ Construct
    \/ SetDataRate
    \/ GetDataRate
    \/ GetMode
    \/ SetLpfCutoff
    \/ GetLpfCutoff
    \/ SetRange
    \/ GetRange
    \/ ReadAcceleration

Spec == Init /\ [][Next]_vars

(***************************************************************************)
(* The conversion on its own: a constructed instance of either variant,    *)
(* its range set at will, and acceleration reads in which one axis takes   *)
(* any of WideSamples while the two others hold samples of RawSamples.     *)
(***************************************************************************)
InitAccel ==
    /\ variant \in {"LIS331HH", "H3LIS331"}
    /\ whoami = LIS331_CHIP_ID
    /\ pc = "live"
    /\ LET fresh == Enter(LIS331_CHIP_ID, 7, 0, NoAttrs)
           r == IF variant = "LIS331HH" THEN LIS331HH_init(fresh)
                ELSE H3LIS331_init(fresh)
       IN /\ ctrl1 = r.ctrl1
          /\ ctrl4 = r.ctrl4
          /\ self = r.self
          /\ last = [op |-> "init", arg |-> <<>>, res |-> r.res,
                     ret |-> r.ret, log |-> r.log]

ReadAccelerationWide ==
    /\ pc = "live"
    /\ \E w \in WideSamples, i \in 1..3, y \in RawSamples :
       \E z \in RawSamples \ {y} :
           LET raw == IF i = 1 THEN <<w, y, z>>
                      ELSE IF i = 2 THEN <<y, w, z>>
                      ELSE <<y, z, w>>
           IN Finish("read_acceleration", <<>>, acceleration(Now, raw))
    /\ UNCHANGED pc

NextAccel ==
    \/ SetRange
    \/ ReadAccelerationWide

SpecAccel == InitAccel /\ [][NextAccel]_vars

(***************************************************************************)
(* Vocabulary of the properties.  Register fields are read off the bytes   *)
(* by position, as the register map gives them.                            *)
(***************************************************************************)
\* byte[hi:lo]
Bits(byte, hi, lo) == (byte \div (2 ^ lo)) % (2 ^ (hi - lo + 1))

Live == pc = "live"

BusEvents(log) == SelectSeq(log, LAMBDA e : e.kind \in {"read", "write"})
Writes(log) == SelectSeq(log, LAMBDA e : e.kind = "write")

\* Bits [4:2] of a rate code: the power-mode field it selects.
PowerField(r) == Bits(r, 4, 2)

RateCodes == {Rate[i].value : i \in 1..Len(Rate)}
NormalRates == {r \in RateCodes : PowerField(r) = 1}
NonNormalRates == RateCodes \ NormalRates
CutoffCodes == {Frequency[i].value : i \in 1..Len(Frequency)}
OwnRange == IF variant = "LIS331HH" THEN LIS331HHRange ELSE H3LIS331Range
OtherRange == IF variant = "LIS331HH" THEN H3LIS331Range ELSE LIS331HHRange
RangeCodes(cls) == {cls[i].value : i \in 1..Len(cls)}

\* What the getters would return in the current state.
ModeNow == mode_get(Now).ret
RangeNow == range_get(Now).ret
DataRateNow == data_rate_get(Now).ret
CutoffNow == LET r == lpf_cutoff_get(Now) IN [res |-> r.res, ret |-> r.ret]

\* The step is a call of op that returned normally / raised exc.
Called(op) == pc = "live" /\ pc' = "live" /\ last'.op = op
Succeeded(op) == Called(op) /\ last'.res = "ok"

\* The call left the device and the instance as they were, without touching the bus.
Untouched ==
    /\ BusEvents(last'.log) = <<>>
    /\ UNCHANGED <<ctrl1, ctrl4, self>>

(***************************************************************************)
(* C1: after a successful set_data_rate(r), get_mode() is bits [4:2] of r  *)
(* collapsed to LOW_POWER when that field is >= LOW_POWER, so get_mode()   *)
(* is always one of SHUTDOWN, NORMAL, LOW_POWER.                           *)
(***************************************************************************)
Collapsed(pm) == IF pm >= 2 THEN 2 ELSE pm

C1_ModeIsCollapsed ==
    Live =>
        /\ ModeNow[1] \in {0, 1, 2}
        /\ (last.op = "set_data_rate" /\ last.res = "ok")
               => ModeNow[1] = Collapsed(PowerField(last.arg[1]))

(***************************************************************************)
(* C2 as stated: set_range(c) with a code c of the other variant's range   *)
(* enumeration raises AttributeError and writes nothing.                   *)
(***************************************************************************)
C2_OtherVariantRejected ==
    [][(Called("set_range") /\ last'.arg[1] \in RangeCodes(OtherRange))
           => (last'.res = "AttributeError" /\ Untouched)]_vars

(***************************************************************************)
(* C2 as amended: the two range enumerations use the same codes, so a code *)
(* of the other variant's enumeration is accepted and written to the range *)
(* field; set_range(c) raises AttributeError and writes nothing exactly    *)
(* when c is no code of the instance's own enumeration.                    *)
(***************************************************************************)
C2_RangeRejectedIffNotOwnCode ==
    [][Called("set_range") =>
           LET c == last'.arg[1]
           IN /\ c \in RangeCodes(OtherRange) =>
                     /\ c \in RangeCodes(OwnRange)
                     /\ last'.res = "ok"
                     /\ Bits(ctrl4', 5, 4) = c
              /\ c \notin RangeCodes(OwnRange) =>
                     /\ last'.res = "AttributeError"
                     /\ Untouched]_vars

C2_Witness ==
    /\ Live
    /\ last.op = "set_range"
    /\ last.arg[1] \in RangeCodes(OtherRange)
    /\ last.res = "ok"
    /\ Writes(last.log) # <<>>
    /\ Bits(ctrl4, 5, 4) = last.arg[1]

(***************************************************************************)
(* C3: set_range(g) succeeds for every code g of the variant's             *)
(* enumeration and leaves g in the range field; get_range() returns the    *)
(* range field; every other call, successful or rejected, leaves the range *)
(* field unchanged.  So get_range() returns the g last set, whatever was   *)
(* called in between.                                                      *)
(***************************************************************************)
C3_RangeRoundTrip ==
    [][(pc = "live" /\ pc' = "live") =>
           /\ (last'.op = "set_range" /\ last'.arg[1] \in RangeCodes(OwnRange))
                  => (last'.res = "ok" /\ Bits(ctrl4', 5, 4) = last'.arg[1])
           /\ ~(last'.op = "set_range" /\ last'.res = "ok")
                  => Bits(ctrl4', 5, 4) = Bits(ctrl4, 5, 4)
           /\ last'.op = "get_range"
                  => (last'.res = "ok" /\ last'.ret = <<Bits(ctrl4, 5, 4)>>)]_vars

\* get_range() returns a code set by an earlier set_range, the data rate
\* having been changed since construction as well.
C3_Witness ==
    /\ Live
    /\ last.op = "get_range"
    /\ last.ret = <<1>>
    /\ self.cached_accel_range = 1
    /\ self.cached_data_rate = 12

(***************************************************************************)
(* C4: while the mode is NORMAL, set_lpf_cutoff(c) for every recognized    *)
(* cutoff code c and get_lpf_cutoff() raise RuntimeError without any bus   *)
(* transaction, leaving CTRL1, CTRL4 and both caches unchanged.            *)
(***************************************************************************)
C4_CutoffRejectedInNormal ==
    [][(/\ pc = "live"
        /\ self.cached_data_rate \in NormalRates
        /\ \/ Called("get_lpf_cutoff")
           \/ Called("set_lpf_cutoff") /\ last'.arg[1] \in CutoffCodes)
           => (last'.res = "RuntimeError" /\ Untouched)]_vars

C4_Witness ==
    /\ Live
    /\ self.cached_data_rate \in NormalRates
    /\ last.op = "set_lpf_cutoff"
    /\ last.arg[1] \in CutoffCodes
    /\ last.res = "RuntimeError"

(***************************************************************************)
(* C5: while the last successful set_data_rate used a non-NORMAL rate,     *)
(* set_lpf_cutoff(c) succeeds for every recognized cutoff code c and       *)
(* leaves c in the cutoff field; get_lpf_cutoff() succeeds and returns the *)
(* cutoff field; set_range, read_acceleration, the getters, rejected calls *)
(* and set_data_rate with a non-NORMAL rate leave the cutoff field         *)
(* unchanged.  So get_lpf_cutoff() returns the c last set.                 *)
(***************************************************************************)
C5_CutoffRoundTrip ==
    [][(pc = "live" /\ pc' = "live" /\ self.cached_data_rate \in NonNormalRates) =>
           /\ (last'.op = "set_lpf_cutoff" /\ last'.arg[1] \in CutoffCodes)
                  => (last'.res = "ok" /\ Bits(ctrl1', 4, 3) = last'.arg[1])
           /\ (/\ ~(last'.op = "set_lpf_cutoff" /\ last'.res = "ok")
               /\ self'.cached_data_rate \in NonNormalRates)
                  => Bits(ctrl1', 4, 3) = Bits(ctrl1, 4, 3)
           /\ last'.op = "get_lpf_cutoff"
                  => (last'.res = "ok" /\ last'.ret = <<Bits(ctrl1, 4, 3)>>)]_vars

\* A cutoff was set in a low-power mode over rate bits a NORMAL rate had left.
C5_Witness ==
    /\ Live
    /\ self.cached_data_rate = 12
    /\ last.op = "set_lpf_cutoff"
    /\ last.res = "ok"
    /\ Bits(last.log[1].val[1], 4, 3) = 3
    /\ Bits(ctrl1, 4, 3) = 0
    /\ CutoffNow = [res |-> "ok", ret |-> <<0>>]

(***************************************************************************)
(* C6: the data_rate getter returns exactly the code passed to the most    *)
(* recent successful set_data_rate, which succeeds for every recognized    *)
(* rate code; rejected set_data_rate calls and all other calls leave the   *)
(* reported value unchanged.                                               *)
(***************************************************************************)
C6_DataRateIsRequestedCode ==
    [][(pc = "live" /\ pc' = "live") =>
           /\ (last'.op = "set_data_rate" /\ last'.arg[1] \in RateCodes)
                  => (last'.res = "ok" /\ DataRateNow' = last'.arg)
           /\ ~(last'.op = "set_data_rate" /\ last'.res = "ok")
                  => DataRateNow' = DataRateNow
           /\ last'.op = "get_data_rate"
                  => (last'.res = "ok" /\ last'.ret = DataRateNow)]_vars

\* The getter reports a low-power code as requested.
C6_Witness ==
    /\ Live
    /\ last.op = "get_data_rate"
    /\ last.ret = <<20>>

(***************************************************************************)
(* C7: for every recognized rate code r whose mode is NORMAL,              *)
(* set_data_rate(r) performs one register write, to CTRL1, and afterwards  *)
(* CTRL1[7:3] = r, whatever CTRL1 held before.                             *)
(***************************************************************************)
C7_NormalRateWritesWholeField ==
    (Live /\ last.op = "set_data_rate" /\ last.arg[1] \in NormalRates) =>
        /\ last.res = "ok"
        /\ Len(Writes(last.log)) = 1
        /\ Writes(last.log)[1].reg = LIS331_REG_CTRL1
        /\ Writes(last.log)[1].val = <<ctrl1>>
        /\ Bits(ctrl1, 7, 3) = last.arg[1]

\* A NORMAL rate written over a low-power configuration with bit 7 set.
C7_Witness ==
    /\ Live
    /\ last.op = "set_data_rate"
    /\ last.arg = <<5>>
    /\ last.res = "ok"
    /\ Bits(last.log[1].val[1], 7, 3) = 16
    /\ Bits(ctrl1, 7, 3) = 5

(***************************************************************************)
(* C8: for every recognized rate code r whose mode is SHUTDOWN or          *)
(* LOW_POWER, set_data_rate(r) writes only CTRL1[7:5]: CTRL1[4:3],         *)
(* CTRL1[2:0], CTRL4 and the cached range are unchanged by the call.       *)
(***************************************************************************)
C8_NonNormalRateWritesModeOnly ==
    [][(Called("set_data_rate") /\ last'.arg[1] \in NonNormalRates) =>
           /\ last'.res = "ok"
           /\ Bits(ctrl1', 7, 5) = PowerField(last'.arg[1])
           /\ Bits(ctrl1', 4, 3) = Bits(ctrl1, 4, 3)
           /\ Bits(ctrl1', 2, 0) = Bits(ctrl1, 2, 0)
           /\ ctrl4' = ctrl4
           /\ self'.cached_accel_range = self.cached_accel_range]_vars

\* A low-power rate set while the rate bits and axis bits were not zero.
C8_Witness ==
    /\ Live
    /\ last.op = "set_data_rate"
    /\ last.arg = <<8>>
    /\ last.res = "ok"
    /\ Bits(ctrl1, 7, 5) = 2
    /\ Bits(ctrl1, 4, 3) = 3
    /\ Bits(ctrl1, 2, 0) = 5

(***************************************************************************)
(* C9: set_data_rate, set_range and set_lpf_cutoff called with a value     *)
(* outside the relevant enumeration raise AttributeError before any bus    *)
(* transaction: CTRL1, CTRL4 and both caches are unchanged.                *)
(***************************************************************************)
C9_InvalidArgumentRejected ==
    [][(\/ Called("set_data_rate") /\ last'.arg[1] \notin RateCodes
        \/ Called("set_range") /\ last'.arg[1] \notin RangeCodes(OwnRange)
        \/ Called("set_lpf_cutoff") /\ last'.arg[1] \notin CutoffCodes)
           => (last'.res = "AttributeError" /\ Untouched)]_vars

\* A cutoff outside the enumeration, rejected while the mode is NORMAL.
C9_Witness ==
    /\ Live
    /\ self.cached_data_rate \in NormalRates
    /\ last.op = "set_lpf_cutoff"
    /\ last.arg = <<3>>
    /\ last.res = "AttributeError"

(***************************************************************************)
(* C10: constructing either variant against a device whose identification  *)
(* register reads 0x32 succeeds, and right after it the data rate is       *)
(* RATE_1000_HZ (0x7), the mode NORMAL and the range the variant's widest  *)
(* (24 g, 400 g), in CTRL1[7:3], CTRL4[5:4] and both caches.               *)
(***************************************************************************)
C10_ConstructionDefaults ==
    (variant \in {"LIS331HH", "H3LIS331"} /\ whoami = 50 /\ pc # "new") =>
        /\ pc = "live"
        /\ last.op = "init" =>
               /\ last.res = "ok"
               /\ DataRateNow = <<7>>
               /\ ModeNow = <<1>>
               /\ RangeNow = <<3>>
               /\ Bits(ctrl1, 7, 3) = 7
               /\ Bits(ctrl4, 5, 4) = 3
               /\ self.cached_data_rate = 7
               /\ self.cached_accel_range = 3
               /\ \E i \in 1..Len(OwnRange) :
                      /\ OwnRange[i].value = self.cached_accel_range
                      /\ OwnRange[i].string = (IF variant = "LIS331HH" THEN "24" ELSE "400")
                      /\ \A j \in 1..Len(OwnRange) : OwnRange[j].lsb <= OwnRange[i].lsb

\* Construction over a device that had been left configured otherwise.
C10_Witness ==
    /\ Live
    /\ last.op = "init"
    /\ variant = "H3LIS331"
    /\ \E i \in 1..Len(last.log) :
           /\ last.log[i].kind = "read"
           /\ last.log[i].reg = LIS331_REG_CTRL4
           /\ Bits(last.log[i].val[1], 5, 4) = 0
    /\ Bits(ctrl4, 5, 4) = 3

(***************************************************************************)
(* C11: constructing against a device whose identification register reads  *)
(* any byte other than 0x32 raises RuntimeError; the identity check comes  *)
(* before every write, so no register is written and no default rate or    *)
(* range is applied.                                                       *)
(***************************************************************************)
C11_WrongChipIdFailsBeforeWrites ==
    [][(pc = "new" /\ whoami # 50 /\ last'.op = "init") =>
           /\ pc' = "failed"
           /\ last'.res = "RuntimeError"
           /\ Writes(last'.log) = <<>>
           /\ UNCHANGED <<ctrl1, ctrl4>>
           /\ "cached_data_rate" \notin DOMAIN self'
           /\ "cached_accel_range" \notin DOMAIN self']_vars

\* A variant's constructor that read 0x33 and stopped, the registers of a
\* device left configured otherwise still in place.
C11_Witness ==
    /\ pc = "failed"
    /\ variant = "LIS331HH"
    /\ whoami = 51
    /\ last.op = "init"
    /\ BusEvents(last.log) = <<Ev("read", LIS331_REG_WHOAMI, "", <<51>>)>>
    /\ ctrl1 = 165
    /\ ctrl4 = 207

(***************************************************************************)
(* C12: after a successful construction the cached range always equals the *)
(* range field CTRL4[5:4] (so get_range() and the cache agree) and is a    *)
(* code of the variant's range enumeration, so the scale-factor lookup of  *)
(* read_acceleration is defined and read_acceleration does not fail.       *)
(***************************************************************************)
C12_CachedRangeIsRegisterAndMember ==
    Live =>
        /\ "cached_accel_range" \in DOMAIN self
        /\ self.cached_accel_range = Bits(ctrl4, 5, 4)
        /\ RangeNow = <<self.cached_accel_range>>
        /\ self.cached_accel_range \in RangeCodes(OwnRange)
        /\ self.range_class = (IF variant = "LIS331HH" THEN "LIS331HHRange"
                                                      ELSE "H3LIS331Range")
        /\ last.op = "read_acceleration" => (last.res = "ok" /\ Len(last.ret) = 3)

\* An acceleration read after the range was changed from its default.
C12_Witness ==
    /\ Live
    /\ last.op = "read_acceleration"
    /\ last.res = "ok"
    /\ self.cached_accel_range = 1
    /\ Bits(ctrl4, 5, 4) = 1

(***************************************************************************)
(* C13: read_acceleration converts each axis on its own as (v >> 4) * s,   *)
(* v the raw signed 16-bit sample, >> a sign-preserving floor shift and s  *)
(* the scale factor of the cached range at the time of the call: the       *)
(* result is floor(v / 16) * s, so v = -16 gives -s, and every v in        *)
(* [-15, -1] gives -s as well, never 0.                                    *)
(***************************************************************************)
\* The full-scale value in g of the instance's cached range.
FullScaleG ==
    LET code == self.cached_accel_range
    IN IF variant = "LIS331HH"
       THEN (IF code = 0 THEN 6 ELSE IF code = 1 THEN 12 ELSE 24)
       ELSE (IF code = 0 THEN 100 ELSE IF code = 1 THEN 200 ELSE 400)

\* s in units of _G_TO_ACCEL / 4096 m/s^2: ((g * 2) / 4096) * _G_TO_ACCEL.
ScaleFactor == FullScaleG * 2

C13_AccelerationIsFloorShiftTimesScale ==
    (Live /\ last.op = "read_acceleration") =>
        LET raw == last.log[1].val
        IN /\ last.res = "ok"
           /\ \A i \in 1..3 :
                  /\ raw[i] \in (0 - 32768) .. 32767
                  /\ last.ret[i] = (raw[i] \div 16) * ScaleFactor
                  /\ raw[i] \in (0 - 16) .. (0 - 1) =>
                         (last.ret[i] = 0 - ScaleFactor /\ last.ret[i] # 0)

\* v = -1 on the second axis, under a range other than the default, beside
\* a positive sample converted on its own.
C13_Witness ==
    /\ Live
    /\ last.op = "read_acceleration"
    /\ self.cached_accel_range = 1
    /\ last.log[1].val = <<15, 0 - 1, 0 - 16>>
    /\ last.ret = <<0, 0 - ScaleFactor, 0 - ScaleFactor>>

(***************************************************************************)
(* C14: the power mode changes only through a successful set_data_rate:    *)
(* every other call, and every rejected call, leaves get_mode(), the       *)
(* cached data rate and CTRL1[7:5] unchanged; and in every state each of   *)
(* SHUTDOWN, NORMAL and LOW_POWER is one set_data_rate away, so from each  *)
(* of them every other is reachable.                                       *)
(***************************************************************************)
\* set_data_rate(r), called now, would succeed and leave get_mode() = m.
RateLeadsToMode(r, m) ==
    LET after == data_rate_set(Now, r)
    IN after.res = "ok" /\ mode(after.self) = m

C14_ModeFollowsDataRateOnly ==
    /\ [][(pc = "live" /\ pc' = "live"
              /\ ~(last'.op = "set_data_rate" /\ last'.res = "ok")) =>
              /\ self'.cached_data_rate = self.cached_data_rate
              /\ mode(self') = mode(self)
              /\ Bits(ctrl1', 7, 5) = Bits(ctrl1, 7, 5)]_vars
    /\ [](Live => \A m \in {0, 1, 2} : \E r \in RateCodes : RateLeadsToMode(r, m))
    /\ [][(Called("get_mode")) =>
              (last'.res = "ok" /\ last'.ret = <<mode(self)>>)]_vars

\* A cutoff write in LOW_POWER that left the mode, the cached rate and
\* CTRL1[7:5] where set_data_rate(0x8) had put them.
C14_Witness ==
    /\ Live
    /\ last.op = "set_lpf_cutoff"
    /\ last.res = "ok"
    /\ self.cached_data_rate = 8
    /\ ModeNow = <<2>>
    /\ Bits(ctrl1, 7, 5) = 2

(***************************************************************************)
(* C15: every successful set_range performs, in this order, the write of   *)
(* the range field, the cache update and then exactly one settling delay   *)
(* of 10 ms, the delay being the last thing the call does, so that no      *)
(* later call of the single caller starts before it has elapsed; a         *)
(* rejected set_range performs no delay.                                   *)
(***************************************************************************)
Sleeps(log) == SelectSeq(log, LAMBDA e : e.kind = "sleep")

\* The positions in log of the events of a kind.
Positions(log, kind) == {i \in 1..Len(log) : log[i].kind = kind}

C15_RangeWriteCacheThenDelay ==
    (Live /\ last.op = "set_range") =>
        IF last.res = "ok"
        THEN /\ Positions(last.log, "write") # {}
             /\ \A i \in Positions(last.log, "write") :
                    /\ last.log[i].reg = LIS331_REG_CTRL4
                    /\ Bits(last.log[i].val[1], 5, 4) = last.arg[1]
                    /\ \E j \in Positions(last.log, "setattr") :
                           /\ i < j
                           /\ last.log[j].attr = "cached_accel_range"
                           /\ last.log[j].val = last.arg
             /\ Len(Sleeps(last.log)) = 1
             /\ Sleeps(last.log)[1].val = <<10>>
             /\ last.log[Len(last.log)].kind = "sleep"
             /\ \A j \in Positions(last.log, "setattr") : j < Len(last.log)
        ELSE Sleeps(last.log) = <<>>

\* A range change that altered the range field and ended in its delay.
C15_Witness ==
    /\ Live
    /\ last.op = "set_range"
    /\ last.res = "ok"
    /\ last.arg = <<0>>
    /\ Bits(last.log[1].val[1], 5, 4) = 3
    /\ Bits(ctrl4, 5, 4) = 0
    /\ last.log[Len(last.log)] = Ev("sleep", 0, "", <<10>>)

(***************************************************************************)
(* C16: every get_lpf_cutoff() that succeeds returns a recognized Filter   *)
(* Cutoff member, one set_lpf_cutoff would accept, also right after the    *)
(* mode was switched from a NORMAL rate to SHUTDOWN or a low-power rate    *)
(* with no set_lpf_cutoff in between.                                      *)
(***************************************************************************)
C16_CutoffReadIsRecognized ==
    (Live /\ last.op = "get_lpf_cutoff" /\ last.res = "ok") =>
        /\ Len(last.ret) = 1
        /\ is_valid(Frequency, last.ret[1])

(***************************************************************************)
(* C17: after a successful construction the registers agree with the       *)
(* cached data rate d: CTRL1[7:5] is bits [4:2] of d, and while the mode   *)
(* is NORMAL the whole field CTRL1[7:3] is d, whatever interleaving of     *)
(* set_data_rate, set_lpf_cutoff and set_range, successful or rejected,    *)
(* led there.                                                              *)
(***************************************************************************)
C17_RegistersAgreeWithCachedRate ==
    Live =>
        LET d == self.cached_data_rate
        IN /\ d \in RateCodes
           /\ Bits(ctrl1, 7, 5) = Bits(d, 4, 2)
           /\ (ModeNow = <<1>> \/ d \in NormalRates) => Bits(ctrl1, 7, 3) = d

\* A recognized cutoff rejected in NORMAL mode at a rate other than the
\* default, the whole field holding that rate.
C17_Witness ==
    /\ Live
    /\ last.op = "set_lpf_cutoff"
    /\ last.arg = <<0>>
    /\ last.res = "RuntimeError"
    /\ self.cached_data_rate = 6
    /\ Bits(ctrl1, 7, 3) = 6

(***************************************************************************)
(* C18: the four named Filter Cutoff members are pairwise distinct codes   *)
(* of the 2-bit cutoff field, each accepted by set_lpf_cutoff in a         *)
(* non-NORMAL mode, so that setting one of them leaves in CTRL1[4:3] a     *)
(* value that is the code of no other, and get_lpf_cutoff() tells them     *)
(* apart.                                                                  *)
(***************************************************************************)
CutoffNames == {"FREQ_37_HZ", "FREQ_74_HZ", "FREQ_292_HZ", "FREQ_780_HZ"}

C18_NamedCutoffsDistinct ==
    (Live /\ last.op = "set_lpf_cutoff" /\ self.cached_data_rate \in NonNormalRates) =>
        \A a \in CutoffNames :
            last.arg[1] = CVAttr(Frequency, a) =>
                /\ last.res = "ok"
                /\ CVAttr(Frequency, a) \in 0..3
                /\ Bits(ctrl1, 4, 3) = CVAttr(Frequency, a)
                /\ CutoffNow.ret = <<CVAttr(Frequency, a)>>
                /\ \A b \in CutoffNames \ {a} :
                       /\ CVAttr(Frequency, b) # CVAttr(Frequency, a)
                       /\ CutoffNow.ret # <<CVAttr(Frequency, b)>>

====
